---- MODULE Spec2Model ----
(***************************************************************************)
(* Model of wenet-kws' training criterion and model composition:           *)
(*   kws/model/loss.py       max_polling_loss  (loss and batch accuracy)    *)
(*   kws/model/kws_model.py  init_model, KWSModel.__init__, KWSModel.forward*)
(*                                                                         *)
(* Numbers.  Probabilities are fixed-point integers in units of 1e-8, so   *)
(* that the clamp floor 1e-8 is the integer 1 and 1.0 is the integer 10^8. *)
(* The posterior grid is {0, 0.25, 0.5, 0.75, 1.0}; it is closed under     *)
(* p |-> 1 - p, so every value that reaches torch.log is a grid point or   *)
(* the clamp floor.  -log is tabulated on those points in micro-nats.      *)
(* The quotients loss / num_utts and num_correct / num_utts are kept as    *)
(* exact fractions [num, den].                                             *)
(***************************************************************************)
EXTENDS Integers, Sequences, FiniteSets, TLC

\* ------------------------------------------------------------------ bounds
MaxUtts == 2
MaxTime == 3
MaxKeywords == 2
\* a batch has at most MaxCells posterior entries (num_utts * time * keywords)
MaxCells == 4
MaxMinDuration == 3
\* widths (input_dim, hidden_dim, output_dim, backbone.hidden_dim) range over 1..MaxDim
MaxDim == 2
\* states of torch's global generator at the entry of a call range over 0..MaxSeed
MaxSeed == 1

\* --------------------------------------------------------------- constants
\* 1.0, the clamp ceiling, in units of 1e-8
One == 100000000
\* 1e-8, the clamp floor, in units of 1e-8
ClampMin == 1
\* 0.5, the decision threshold of the accuracy pass, in units of 1e-8
Threshold == 50000000

\* the posterior grid: 0, 0.25, 0.5, 0.75, 1.0
Levels == {0, Threshold \div 2, Threshold, Threshold + Threshold \div 2, One}

VARIABLES
    \* ---- max_polling_loss: arguments
    logits,        \* (B, T, D) posteriors, logits[i][t][j]
    target,        \* (B) keyword index, or a negative filler id
    lengths,       \* (B) number of valid frames
    min_duration,
    \* ---- max_polling_loss: locals
    pc,            \* "loss" | "acc" | "done"
    i, j,          \* loop counters
    loss,          \* [num, den]: accumulated sum, then sum / num_utts
    terms,         \* one record per executed `loss += -torch.log(..)`
    max_logits,    \* (B, D) after line 70, <<>> before
    num_correct,
    acc,           \* [num, den] after line 80
    \* ---- the caller of max_polling_loss
    prev           \* what the previous call on this batch returned, if any

evalVars == <<logits, target, lengths, min_duration, pc, i, j, loss, terms,
              max_logits, num_correct, acc, prev>>

VARIABLES
    \* ---- init_model / KWSModel
    configs,       \* the configuration mapping handed to init_model
    phase,         \* "compose" | "forward" | "end" | "exited"
    models,        \* the KWSModel objects init_model has returned so far
    exit_status,   \* 0 while the process runs, the sys.exit status after
    printed,       \* what init_model printed before exiting
    fwd_pc,        \* position inside KWSModel.forward
    x,             \* forward's local x: the input and the stages applied to it
    posteriors     \* what forward returned, one entry per pipeline

composeVars == <<configs, phase, models, exit_status, printed, fwd_pc, x,
                 posteriors>>

vars == <<evalVars, composeVars>>

\* ------------------------------------------------------------ tensor helpers
Max2(a, b) == IF a >= b THEN a ELSE b
Min2(a, b) == IF a <= b THEN a ELSE b

\* logits.size(0), logits.size(1), logits.size(2)
NumUtts(lg) == Cardinality(DOMAIN lg)
NumFrames(lg) == Cardinality(DOMAIN lg[0])
NumKeywords(lg) == Cardinality(DOMAIN lg[0][0])

\* logits[i, :, j]
Column(lg, u, k) == [t \in DOMAIN lg[u] |-> lg[u][t][k]]

\* padding_mask(lengths): mask[i][t] is TRUE iff frame t of utterance i is padding
PaddingMask(lens, T) == [u \in DOMAIN lens |-> [t \in 0..(T - 1) |-> t >= lens[u]]]

\* mutant: the line `m[:min_duration] = True` is missing
MinDurationMaskMissing(m, md) == m

\* m = mask[i].clone(); m[:min_duration] = True
MinDurationMask(m, md) == [t \in DOMAIN m |-> IF t < md THEN TRUE ELSE m[t]]

\* prob.masked_fill(m, value)
MaskedFill(prob, m, value) == [t \in DOMAIN prob |-> IF m[t] THEN value ELSE prob[t]]

\* torch.clamp(x, 1e-8, 1.0), elementwise
Clamp(p) == Max2(ClampMin, Min2(One, p))
ClampVec(prob) == [t \in DOMAIN prob |-> Clamp(prob[t])]

\* prob.max() and prob.min() over a vector indexed 0..n-1
RECURSIVE VecMaxUpTo(_, _)
VecMaxUpTo(v, n) == IF n = 0 THEN v[0] ELSE Max2(VecMaxUpTo(v, n - 1), v[n])
VecMax(v) == VecMaxUpTo(v, Cardinality(DOMAIN v) - 1)

RECURSIVE VecMinUpTo(_, _)
VecMinUpTo(v, n) == IF n = 0 THEN v[0] ELSE Min2(VecMinUpTo(v, n - 1), v[n])
VecMin(v) == VecMinUpTo(v, Cardinality(DOMAIN v) - 1)

\* -torch.log(x) in micro-nats, on the values the clamp can produce
NegLog(p) ==
    CASE p = One -> 0
      [] p = Threshold + Threshold \div 2 -> 287682
      [] p = Threshold -> 693147
      [] p = Threshold \div 2 -> 1386294
      [] p = ClampMin -> 18420681

\* ------------------------------------------------------- max_polling_loss
\* lines 51-56: the value handed to torch.log on the keyword branch
MaxProb(lg, lens, md, u, k) ==
    LET prob == Column(lg, u, k)
        m == MinDurationMask(PaddingMask(lens, NumFrames(lg))[u], md)
    IN VecMax(ClampVec(MaskedFill(prob, m, 0)))

\* mutant: the other-keyword branch forgets `prob.masked_fill(mask[i], 1.0)`
MinProbUnmasked(lg, lens, u, k) ==
    VecMin(ClampVec([t \in DOMAIN lg[u] |-> One - lg[u][t][k]]))

\* lines 60-63: the value handed to torch.log on the other-keyword/filler branch
MinProb(lg, lens, u, k) ==
    LET prob == [t \in DOMAIN lg[u] |-> One - lg[u][t][k]]
    IN VecMin(ClampVec(MaskedFill(prob, PaddingMask(lens, NumFrames(lg))[u], One)))

\* mutant: `loss += torch.log(p)`, the minus sign is missing
AddTermLog(l, p) == [num |-> l.num - NegLog(p), den |-> l.den]

\* lines 57 and 64: loss += -torch.log(p)
AddTerm(l, p) == [num |-> l.num + NegLog(p), den |-> l.den]

\* mutant: the sum is averaged over the keywords as well
DivideLossByKeywordsToo(l, n) == [num |-> l.num, den |-> l.den * n * NumKeywords(logits)]

\* line 65: loss = loss / num_utts
DivideLoss(l, n) == [num |-> l.num, den |-> l.den * n]

\* mutant: the accuracy pass forgets `logits.masked_fill(mask, 0.0)`
MaxLogitsUnmasked(lg, lens) ==
    [u \in DOMAIN lg |-> [k \in DOMAIN lg[u][0] |-> VecMax(Column(lg, u, k))]]

\* lines 68-70: logits.masked_fill(mask.unsqueeze(-1), 0.0).max(1) (the values)
MaxLogits(lg, lens) ==
    [u \in DOMAIN lg |->
        [k \in DOMAIN lg[u][0] |->
            VecMax(MaskedFill(Column(lg, u, k), PaddingMask(lens, NumFrames(lg))[u], 0))]]

\* line 73: max_logits[i].max(0), the value and the index of its first occurrence
MaxP(row) == VecMax(row)
Idx(row) == CHOOSE k \in DOMAIN row :
                /\ row[k] = VecMax(row)
                /\ \A k2 \in DOMAIN row : row[k2] = VecMax(row) => k <= k2

\* mutant: `max_p >= 0.5`
KeywordCorrectAtThreshold(max_p, idx, tgt) == max_p >= Threshold /\ idx = tgt

\* lines 75-76
KeywordCorrect(max_p, idx, tgt) == max_p > Threshold /\ idx = tgt
\* lines 78-79
FillerCorrect(max_p, tgt) == max_p < Threshold /\ tgt < 0

\* line 80: acc = num_correct / num_utts
Accuracy(n, num_utts) == [num |-> n, den |-> num_utts]

\* the loop counters after one pass of the inner loop body (lines 46-47)
NextI(lg) == IF j + 1 < NumKeywords(lg) THEN i ELSE i + 1
NextJ(lg) == IF j + 1 < NumKeywords(lg) THEN j + 1 ELSE 0

\* --------------------------------------------------------------------- Init
Shapes == {s \in (1..MaxUtts) \X (1..MaxTime) \X (1..MaxKeywords) :
              s[1] * s[2] * s[3] <= MaxCells}

InitEval ==
    /\ \E s \in Shapes :
          /\ logits \in [0..(s[1] - 1) -> [0..(s[2] - 1) -> [0..(s[3] - 1) -> Levels]]]
          /\ target \in [0..(s[1] - 1) -> (-1)..(s[3] - 1)]
          /\ lengths \in [0..(s[1] - 1) -> 1..s[2]]
    /\ min_duration \in 0..MaxMinDuration
    /\ pc = "loss"
    /\ i = 0
    /\ j = 0
    /\ loss = [num |-> 0, den |-> 1]
    /\ terms = <<>>
    /\ max_logits = <<>>
    /\ num_correct = 0
    /\ acc = [num |-> 0, den |-> 1]
    /\ prev = [called |-> FALSE, loss |-> [num |-> 0, den |-> 1],
               acc |-> [num |-> 0, den |-> 1]]

\* No pipeline is being composed
ComposeIdle ==
    /\ configs = <<>>
    /\ phase = "idle"
    /\ models = <<>>
    /\ exit_status = 0
    /\ printed = "none"
    /\ fwd_pc = "idle"
    /\ x = <<>>
    /\ posteriors = <<>>

Init == InitEval /\ ComposeIdle

\* ------------------------------------------------------------------ actions
\* lines 49-57: one pass of the loop body, keyword branch
LossKeyword ==
    /\ pc = "loss"
    /\ i < NumUtts(logits)
    /\ target[i] = j
    /\ LET max_prob == MaxProb(logits, lengths, min_duration, i, j)
       IN /\ loss' = AddTerm(loss, max_prob)
          /\ terms' = Append(terms, [i |-> i, j |-> j, branch |-> "max",
                                     p |-> max_prob,
                                     value |-> AddTerm(loss, max_prob).num - loss.num])
    /\ i' = NextI(logits)
    /\ j' = NextJ(logits)
    /\ UNCHANGED <<logits, target, lengths, min_duration, pc, max_logits,
                   num_correct, acc, prev>>
    /\ UNCHANGED composeVars

\* lines 58-64: one pass of the loop body, other-keyword / filler branch
LossOther ==
    /\ pc = "loss"
    /\ i < NumUtts(logits)
    /\ target[i] # j
    /\ LET min_prob == MinProb(logits, lengths, i, j)
       IN /\ loss' = AddTerm(loss, min_prob)
          /\ terms' = Append(terms, [i |-> i, j |-> j, branch |-> "min",
                                     p |-> min_prob,
                                     value |-> AddTerm(loss, min_prob).num - loss.num])
    /\ i' = NextI(logits)
    /\ j' = NextJ(logits)
    /\ UNCHANGED <<logits, target, lengths, min_duration, pc, max_logits,
                   num_correct, acc, prev>>
    /\ UNCHANGED composeVars

\* lines 65-71: the loops are over; divide, mask, reduce over time
LossDivide ==
    /\ pc = "loss"
    /\ i = NumUtts(logits)
    /\ loss' = DivideLoss(loss, NumUtts(logits))
    /\ max_logits' = MaxLogits(logits, lengths)
    /\ num_correct' = 0
    /\ i' = 0
    /\ pc' = "acc"
    /\ UNCHANGED <<logits, target, lengths, min_duration, j, terms, acc, prev>>
    /\ UNCHANGED composeVars

\* lines 72-79: one pass of the accuracy loop
AccuracyStep ==
    /\ pc = "acc"
    /\ i < NumUtts(logits)
    /\ LET max_p == MaxP(max_logits[i])
           idx == Idx(max_logits[i])
           n1 == IF KeywordCorrect(max_p, idx, target[i])
                 THEN num_correct + 1 ELSE num_correct
           n2 == IF FillerCorrect(max_p, target[i]) THEN n1 + 1 ELSE n1
       IN num_correct' = n2
    /\ i' = i + 1
    /\ UNCHANGED <<logits, target, lengths, min_duration, pc, j, loss, terms,
                   max_logits, acc, prev>>
    /\ UNCHANGED composeVars

\* lines 80-82
Return ==
    /\ pc = "acc"
    /\ i = NumUtts(logits)
    /\ acc' = Accuracy(num_correct, NumUtts(logits))
    /\ pc' = "done"
    /\ UNCHANGED <<logits, target, lengths, min_duration, i, j, loss, terms,
                   max_logits, num_correct, prev>>
    /\ UNCHANGED composeVars

Next ==
    \/ LossKeyword
    \/ LossOther
    \/ LossDivide
    \/ AccuracyStep
    \/ Return

Spec == Init /\ [][Next]_vars

\* The caller evaluates the same batch again (same target, lengths and
\* min_duration) after the padded frames of the posterior tensor, and only
\* those, have been overwritten with other values.
PaddedCells(lg, lens) ==
    {c \in (DOMAIN lg) \X (DOMAIN lg[0]) \X (DOMAIN lg[0][0]) : c[2] >= lens[c[1]]}

Overwrite(lg, lens, garbage) ==
    [u \in DOMAIN lg |-> [t \in DOMAIN lg[u] |-> [k \in DOMAIN lg[u][t] |->
        IF t >= lens[u] THEN garbage[<<u, t, k>>] ELSE lg[u][t][k]]]]

CallAgain ==
    /\ pc = "done"
    /\ \E garbage \in [PaddedCells(logits, lengths) -> Levels] :
          /\ Overwrite(logits, lengths, garbage) # logits
          /\ logits' = Overwrite(logits, lengths, garbage)
    /\ prev' = [called |-> TRUE, loss |-> loss, acc |-> acc]
    /\ pc' = "loss"
    /\ i' = 0
    /\ j' = 0
    /\ loss' = [num |-> 0, den |-> 1]
    /\ terms' = <<>>
    /\ max_logits' = <<>>
    /\ num_correct' = 0
    /\ acc' = [num |-> 0, den |-> 1]
    /\ UNCHANGED <<target, lengths, min_duration>>
    /\ UNCHANGED composeVars

NextPad ==
    \/ Next
    \/ CallAgain

SpecPad == Init /\ [][NextPad]_vars

\* ================================================ init_model and KWSModel
\* A module reference that is None
None == [kind |-> "None"]

\* The n-th parameter tensor drawn from torch's global generator by a call that
\* found the generator in state `seed`
Draw(seed, n) == <<seed, n>>

\* The cmvn section: absent, present without a cmvn_file key, present with
\* cmvn_file: null, present with a file (norm_var true or false)
CmvnSections ==
    {[section |-> FALSE, has_key |-> FALSE, cmvn_file |-> "None", norm_var |-> FALSE],
     [section |-> TRUE, has_key |-> FALSE, cmvn_file |-> "None", norm_var |-> FALSE],
     [section |-> TRUE, has_key |-> TRUE, cmvn_file |-> "None", norm_var |-> FALSE],
     [section |-> TRUE, has_key |-> TRUE, cmvn_file |-> "global_cmvn", norm_var |-> FALSE],
     [section |-> TRUE, has_key |-> TRUE, cmvn_file |-> "global_cmvn", norm_var |-> TRUE]}

PreprocessingTypes == {"none", "linear", "cnn1d_s1"}
BackboneTypes == {"gru", "tcn", "mdtc"}

\* backbone sections: the type, and the hyper-parameters init_model reads that
\* select a variant or a width ("lstm" stands for any unrecognised name)
BackboneSections ==
    {[type |-> "gru", ds |-> FALSE, hidden_dim |-> 1],
     [type |-> "tcn", ds |-> FALSE, hidden_dim |-> 1],
     [type |-> "tcn", ds |-> TRUE, hidden_dim |-> 1],
     [type |-> "lstm", ds |-> FALSE, hidden_dim |-> 1]}
    \cup {[type |-> "mdtc", ds |-> FALSE, hidden_dim |-> h] : h \in 1..MaxDim}

\* ("conv2d" stands for any unrecognised preprocessing name)
Configurations ==
    [cmvn : CmvnSections,
     input_dim : 1..MaxDim,
     output_dim : 1..MaxDim,
     hidden_dim : 1..MaxDim,
     preprocessing : [type : PreprocessingTypes \cup {"conv2d"}],
     backbone : BackboneSections]

\* mutant: `if 'cmvn_file' in cmvn:` without the test for None
GlobalCmvnOfAnyKey(cfg) ==
    IF cfg.cmvn.has_key
    THEN [kind |-> "GlobalCMVN", stats |-> cfg.cmvn.cmvn_file,
          norm_var |-> cfg.cmvn.norm_var]
    ELSE None

\* lines 64-73
GlobalCmvnOf(cfg) ==
    IF cfg.cmvn.has_key /\ cfg.cmvn.cmvn_file # "None"
    THEN [kind |-> "GlobalCMVN", stats |-> cfg.cmvn.cmvn_file,
          norm_var |-> cfg.cmvn.norm_var]
    ELSE None

\* mutant: an unrecognised preprocessing type falls back to no projection
PreprocessingOfDefaultNone(cfg, seed) ==
    LET prep_type == cfg.preprocessing.type
    IN CASE prep_type = "linear" ->
                [kind |-> "LinearSubsampling1", idim |-> cfg.input_dim,
                 odim |-> cfg.hidden_dim, params |-> Draw(seed, 0)]
         [] prep_type = "cnn1d_s1" ->
                [kind |-> "Conv1dSubsampling1", idim |-> cfg.input_dim,
                 odim |-> cfg.hidden_dim, params |-> Draw(seed, 0)]
         [] OTHER -> None

\* lines 79-88: the module, or "exit" for the sys.exit(1) of the else branch
PreprocessingOf(cfg, seed) ==
    LET prep_type == cfg.preprocessing.type
    IN CASE prep_type = "linear" ->
                [kind |-> "LinearSubsampling1", idim |-> cfg.input_dim,
                 odim |-> cfg.hidden_dim, params |-> Draw(seed, 0)]
         [] prep_type = "cnn1d_s1" ->
                [kind |-> "Conv1dSubsampling1", idim |-> cfg.input_dim,
                 odim |-> cfg.hidden_dim, params |-> Draw(seed, 0)]
         [] prep_type = "none" -> None
         [] OTHER -> [kind |-> "exit"]

\* the local hidden_dim when KWSModel is constructed (lines 77 and 113)
HiddenDimOf(cfg) ==
    IF cfg.backbone.type = "mdtc" THEN cfg.backbone.hidden_dim ELSE cfg.hidden_dim

\* lines 90-123: the module, or "exit" for the sys.exit(1) of the else branch;
\* n is the number of parameter tensors drawn before the backbone is built
BackboneOf(cfg, seed, n) ==
    LET backbone_type == cfg.backbone.type
    IN CASE backbone_type = "gru" ->
                [kind |-> "GRU", idim |-> cfg.hidden_dim, odim |-> cfg.hidden_dim,
                 block_class |-> "None", params |-> Draw(seed, n)]
         [] backbone_type = "tcn" ->
                [kind |-> "TCN", idim |-> cfg.hidden_dim, odim |-> cfg.hidden_dim,
                 block_class |-> IF cfg.backbone.ds THEN "DsCnnBlock" ELSE "CnnBlock",
                 params |-> Draw(seed, n)]
         [] backbone_type = "mdtc" ->
                [kind |-> "MDTC", idim |-> cfg.input_dim,
                 odim |-> cfg.backbone.hidden_dim,
                 block_class |-> "None", params |-> Draw(seed, n)]
         [] OTHER -> [kind |-> "exit"]

\* lines 34-50: KWSModel.__init__; n parameter tensors were drawn before it
KWSModelInit(idim, odim, hdim, global_cmvn, preprocessing, backbone, seed, n) ==
    [idim |-> idim, odim |-> odim, hdim |-> hdim,
     global_cmvn |-> global_cmvn,
     preprocessing |-> preprocessing,
     backbone |-> backbone,
     classifier |-> [kind |-> "Linear", idim |-> hdim, odim |-> odim,
                     params |-> Draw(seed, n)]]

DrawsOf(module) == IF module = None THEN 0 ELSE 1

\* lines 63-127, when both type names are recognised
InitModel(cfg, seed) ==
    LET preprocessing == PreprocessingOf(cfg, seed)
        backbone == BackboneOf(cfg, seed, DrawsOf(preprocessing))
    IN KWSModelInit(cfg.input_dim, cfg.output_dim, HiddenDimOf(cfg),
                    GlobalCmvnOf(cfg), preprocessing, backbone, seed,
                    DrawsOf(preprocessing) + 1)

\* mutant: the mdtc branch stores its hidden_dim into configs['hidden_dim']
ConfigsWithHiddenDimStored(cfg) == [cfg EXCEPT !.hidden_dim = HiddenDimOf(cfg)]

\* init_model reads configs and assigns nothing in it
ConfigsAfterInitModel(cfg) == cfg

\* the status init_model hands to sys.exit (lines 88 and 123)
ExitStatus == 1

InitCompose ==
    /\ configs \in Configurations
    /\ phase = "compose"
    /\ models = <<>>
    /\ exit_status = 0
    /\ printed = "none"
    /\ fwd_pc = "idle"
    /\ x = <<>>
    /\ posteriors = <<>>

\* lines 63-127: a call that returns a KWSModel.  `seed` is the state of
\* torch's global generator when the call starts.
InitModelReturns ==
    /\ phase = "compose"
    /\ PreprocessingOf(configs, 0).kind # "exit"
    /\ BackboneOf(configs, 0, 0).kind # "exit"
    /\ \E seed \in 0..MaxSeed :
          models' = Append(models, [seed |-> seed,
                                    model |-> InitModel(configs, seed)])
    /\ configs' = ConfigsAfterInitModel(configs)
    /\ phase' = IF Len(models) = 1 THEN "forward" ELSE "compose"
    /\ UNCHANGED <<exit_status, printed, fwd_pc, x, posteriors>>
    /\ UNCHANGED evalVars

\* lines 86-88: unknown preprocessing type
InitModelExitsPreprocessing ==
    /\ phase = "compose"
    /\ PreprocessingOf(configs, 0).kind = "exit"
    /\ printed' = "Unknown preprocessing type"
    /\ exit_status' = ExitStatus
    /\ phase' = "exited"
    /\ UNCHANGED <<configs, models, fwd_pc, x, posteriors>>
    /\ UNCHANGED evalVars

\* lines 121-123: unknown backbone type (reached only past line 88)
InitModelExitsBackbone ==
    /\ phase = "compose"
    /\ PreprocessingOf(configs, 0).kind # "exit"
    /\ BackboneOf(configs, 0, 0).kind = "exit"
    /\ printed' = "Unknown body type"
    /\ exit_status' = ExitStatus
    /\ phase' = "exited"
    /\ UNCHANGED <<configs, models, fwd_pc, x, posteriors>>
    /\ UNCHANGED evalVars

\* The pipeline the running forward call belongs to
Self == models[Len(posteriors) + 1].model

Applied(stage, module) == [stage |-> stage, module |-> module]

\* line 52: forward is called on the next pipeline with the input batch
ForwardCall ==
    /\ phase = "forward"
    /\ fwd_pc = "idle"
    /\ Len(posteriors) < Len(models)
    /\ x' = <<Applied("input", [kind |-> "batch"])>>
    /\ fwd_pc' = "global_cmvn"
    /\ UNCHANGED <<configs, phase, models, exit_status, printed, posteriors>>
    /\ UNCHANGED evalVars

\* lines 53-54
ForwardGlobalCmvn ==
    /\ fwd_pc = "global_cmvn"
    /\ x' = IF Self.global_cmvn # None
            THEN Append(x, Applied("global_cmvn", Self.global_cmvn))
            ELSE x
    /\ fwd_pc' = "preprocessing"
    /\ UNCHANGED <<configs, phase, models, exit_status, printed, posteriors>>
    /\ UNCHANGED evalVars

\* lines 55-56
ForwardPreprocessing ==
    /\ fwd_pc = "preprocessing"
    /\ x' = IF Self.preprocessing # None
            THEN Append(x, Applied("preprocessing", Self.preprocessing))
            ELSE x
    /\ fwd_pc' = "backbone"
    /\ UNCHANGED <<configs, phase, models, exit_status, printed, posteriors>>
    /\ UNCHANGED evalVars

\* line 57
ForwardBackbone ==
    /\ fwd_pc = "backbone"
    /\ x' = Append(x, Applied("backbone", Self.backbone))
    /\ fwd_pc' = "classifier"
    /\ UNCHANGED <<configs, phase, models, exit_status, printed, posteriors>>
    /\ UNCHANGED evalVars

\* line 58
ForwardClassifier ==
    /\ fwd_pc = "classifier"
    /\ x' = Append(x, Applied("classifier", Self.classifier))
    /\ fwd_pc' = "sigmoid"
    /\ UNCHANGED <<configs, phase, models, exit_status, printed, posteriors>>
    /\ UNCHANGED evalVars

\* lines 59-60
ForwardSigmoid ==
    /\ fwd_pc = "sigmoid"
    /\ posteriors' = Append(posteriors, Append(x, Applied("sigmoid", None)))
    /\ x' = <<>>
    /\ fwd_pc' = "idle"
    /\ phase' = IF Len(posteriors) + 1 = Len(models) THEN "end" ELSE phase
    /\ UNCHANGED <<configs, models, exit_status, printed>>
    /\ UNCHANGED evalVars

NextCompose ==
    \/ InitModelReturns
    \/ InitModelExitsPreprocessing
    \/ InitModelExitsBackbone
    \/ ForwardCall
    \/ ForwardGlobalCmvn
    \/ ForwardPreprocessing
    \/ ForwardBackbone
    \/ ForwardClassifier
    \/ ForwardSigmoid

\* No batch is being evaluated
EvalIdle ==
    /\ logits = <<>>
    /\ target = <<>>
    /\ lengths = <<>>
    /\ min_duration = 0
    /\ pc = "idle"
    /\ i = 0
    /\ j = 0
    /\ loss = [num |-> 0, den |-> 1]
    /\ terms = <<>>
    /\ max_logits = <<>>
    /\ num_correct = 0
    /\ acc = [num |-> 0, den |-> 1]
    /\ prev = [called |-> FALSE, loss |-> [num |-> 0, den |-> 1],
               acc |-> [num |-> 0, den |-> 1]]

InitComposer == InitCompose /\ EvalIdle

SpecCompose == InitComposer /\ [][NextCompose]_vars

\* =========================================================== properties
\* Reference notions, stated over the arguments only.
SetMax(S) == CHOOSE m \in S : \A y \in S : y <= m

Utts == DOMAIN logits
Frames == DOMAIN logits[0]
Keywords == DOMAIN logits[0][0]

\* the frames t with t < lengths[u]
ValidFrames(u) == {t \in Frames : t < lengths[u]}
\* the frames t with min_duration <= t < lengths[u]
KeywordFrames(u) == {t \in Frames : min_duration <= t /\ t < lengths[u]}
\* the maximum posterior of column k of utterance u over the frames F (F # {})
MaxOver(u, k, F) == SetMax({logits[u][t][k] : t \in F})

TermsOf(u, k) == {n \in 1..Len(terms) : terms[n].i = u /\ terms[n].j = k}

RECURSIVE SumValues(_, _)
SumValues(ts, n) == IF n = 0 THEN 0 ELSE SumValues(ts, n - 1) + ts[n].value

LossLoopsOver == pc # "loss" \/ i = NumUtts(logits)

\* C2: the term of the target column of a keyword utterance is
\* -log(clamp(M, 1e-8, 1)), M the maximum posterior over the frames
\* min_duration <= t < lengths[i]; with no such frame it is -log(1e-8), and the
\* term is always produced (nothing is raised).
C2_KeywordTerm ==
    /\ \A n \in 1..Len(terms) :
          LET u == terms[n].i
              k == terms[n].j
          IN target[u] = k =>
                terms[n].value =
                    IF KeywordFrames(u) = {}
                    THEN NegLog(ClampMin)
                    ELSE NegLog(Clamp(MaxOver(u, k, KeywordFrames(u))))
    /\ LossLoopsOver =>
          \A u \in Utts : target[u] \in Keywords => TermsOf(u, target[u]) # {}

\* C2 witness: the loss loops are over; one keyword term was taken over a
\* non-empty frame set although an excluded frame (before min_duration or
\* padded) holds a strictly larger posterior, and one keyword term was taken
\* over an empty frame set although its column holds a posterior above the floor.
C2_Witness ==
    /\ pc = "done"
    /\ \E n \in 1..Len(terms) :
          LET u == terms[n].i
              k == terms[n].j
          IN /\ target[u] = k
             /\ KeywordFrames(u) # {}
             /\ \E t \in Frames \ KeywordFrames(u) :
                   logits[u][t][k] > MaxOver(u, k, KeywordFrames(u))
    /\ \E n \in 1..Len(terms) :
          LET u == terms[n].i
              k == terms[n].j
          IN /\ target[u] = k
             /\ KeywordFrames(u) = {}
             /\ min_duration >= lengths[u]
             /\ \E t \in Frames : logits[u][t][k] > ClampMin

\* C3: the term of every column that is not the utterance's target (every
\* column of a filler utterance included) is -log(clamp(1 - P, 1e-8, 1)), P the
\* maximum posterior of that column over the valid frames t < lengths[i]; the
\* minimum masked absence probability is 1 - P.
C3_OtherTerm ==
    /\ \A n \in 1..Len(terms) :
          LET u == terms[n].i
              k == terms[n].j
              P == MaxOver(u, k, ValidFrames(u))
          IN target[u] # k =>
                /\ terms[n].p = Clamp(One - P)
                /\ terms[n].value = NegLog(Clamp(One - P))
    /\ LossLoopsOver =>
          \A u \in Utts : \A k \in Keywords :
              target[u] # k => TermsOf(u, k) # {}

\* C3 witness: a filler utterance with a non-zero min_duration whose column
\* has a padded frame with a strictly larger posterior than any valid frame,
\* and whose valid frames before min_duration hold the column's maximum.
C3_Witness ==
    /\ pc = "done"
    /\ min_duration > 0
    /\ \E n \in 1..Len(terms) :
          LET u == terms[n].i
              k == terms[n].j
          IN /\ target[u] < 0
             /\ MaxOver(u, k, ValidFrames(u)) > 0
             /\ logits[u][0][k] = MaxOver(u, k, ValidFrames(u))
             /\ \E t \in Frames \ ValidFrames(u) :
                   logits[u][t][k] > MaxOver(u, k, ValidFrames(u))

\* C4: the returned loss is the sum of exactly B*D terms, one per (i, j),
\* divided by B; a keyword utterance has exactly one max-pooling term (its
\* target column) and D-1 min-pooling terms, a filler utterance D min-pooling
\* terms.
C4_SumOverBatch ==
    pc = "done" =>
        /\ Len(terms) = NumUtts(logits) * NumKeywords(logits)
        /\ \A u \in Utts : \A k \in Keywords : Cardinality(TermsOf(u, k)) = 1
        /\ loss.num = SumValues(terms, Len(terms))
        /\ loss.den = NumUtts(logits)
        /\ \A u \in Utts :
              LET maxTerms == {n \in 1..Len(terms) :
                                  terms[n].i = u /\ terms[n].branch = "max"}
                  minTerms == {n \in 1..Len(terms) :
                                  terms[n].i = u /\ terms[n].branch = "min"}
              IN IF target[u] \in Keywords
                 THEN /\ Cardinality(maxTerms) = 1
                      /\ \A n \in maxTerms : terms[n].j = target[u]
                      /\ Cardinality(minTerms) = NumKeywords(logits) - 1
                 ELSE /\ maxTerms = {}
                      /\ Cardinality(minTerms) = NumKeywords(logits)

\* C4 witness: a returned batch of two utterances and two keywords, one a
\* keyword utterance and one a filler, with a non-zero loss.
C4_Witness ==
    /\ pc = "done"
    /\ NumUtts(logits) = 2
    /\ NumKeywords(logits) = 2
    /\ \E u \in Utts : target[u] \in Keywords
    /\ \E u \in Utts : target[u] < 0
    /\ loss.num > 0

\* C5: the loss is never negative: every value handed to the logarithm lies
\* in [1e-8, 1] and every accumulated term is >= 0.
C5_LossNonNegative ==
    /\ loss.num >= 0
    /\ loss.den > 0
    /\ \A n \in 1..Len(terms) :
          /\ ClampMin <= terms[n].p
          /\ terms[n].p <= One
          /\ terms[n].value >= 0

\* C5 witness: a returned batch in which the clamp floor was needed on both
\* branches: a keyword term whose maximum posterior is 0 and a min-pooling
\* term whose column reaches posterior 1 on a valid frame.
C5_Witness ==
    /\ pc = "done"
    /\ \E n \in 1..Len(terms) :
          /\ terms[n].branch = "max"
          /\ \A t \in Frames : logits[terms[n].i][t][terms[n].j] = 0
          /\ terms[n].p = ClampMin
    /\ \E n \in 1..Len(terms) :
          /\ terms[n].branch = "min"
          /\ MaxOver(terms[n].i, terms[n].j, ValidFrames(terms[n].i)) = One
          /\ terms[n].p = ClampMin

\* the overall maximum valid-frame posterior of utterance u over all keywords
OverallMax(u) == SetMax({logits[u][t][k] : t \in ValidFrames(u), k \in Keywords})
\* the keyword attaining it (the lowest index when several do, as torch.max)
OverallArgMax(u) ==
    CHOOSE k \in Keywords :
        /\ MaxOver(u, k, ValidFrames(u)) = OverallMax(u)
        /\ \A k2 \in Keywords :
              MaxOver(u, k2, ValidFrames(u)) = OverallMax(u) => k <= k2
CountedCorrect(u) ==
    \/ OverallMax(u) > Threshold /\ OverallArgMax(u) = target[u]
    \/ OverallMax(u) < Threshold /\ target[u] < 0

\* C7: accuracy = (number of correct utterances) / B, an utterance being
\* correct iff its overall maximum valid-frame posterior is > 0.5 at the target
\* keyword, or < 0.5 with a negative target; a maximum of exactly 0.5 is never
\* correct, and no utterance counts twice.
C7_Accuracy ==
    /\ pc = "done" =>
          /\ acc.den = NumUtts(logits)
          /\ acc.num = Cardinality({u \in Utts : CountedCorrect(u)})
          /\ \A u \in Utts : OverallMax(u) = Threshold => ~CountedCorrect(u)
    /\ pc = "acc" => num_correct <= i
    /\ num_correct \in 0..NumUtts(logits)

\* C7 witness: a returned batch with one utterance counted correct and one
\* whose overall maximum is exactly 0.5 (a filler), so accuracy is 1/2; a
\* padded frame of the correct utterance holds a larger posterior than its
\* valid maximum.
C7_Witness ==
    /\ pc = "done"
    /\ acc = [num |-> 1, den |-> 2]
    /\ \E u \in Utts : OverallMax(u) = Threshold /\ target[u] < 0
    /\ \E u \in Utts :
          /\ CountedCorrect(u)
          /\ \E t \in Frames \ ValidFrames(u) : \E k \in Keywords :
                logits[u][t][k] > OverallMax(u)

\* C6: evaluating again after only padded frames of the posterior tensor
\* changed returns the same loss and the same accuracy.
C6_PaddingNonInterference ==
    (pc = "done" /\ prev.called) => (loss = prev.loss /\ acc = prev.acc)

\* C6 witness: a second evaluation has returned, on a tensor that differs
\* from the first in a padded frame, with a non-trivial loss and accuracy.
C6_Witness ==
    /\ pc = "done"
    /\ prev.called
    /\ loss.num > 0
    /\ acc.num > 0
    /\ \E u \in Utts : \E t \in Frames \ ValidFrames(u) : \E k \in Keywords :
          logits[u][t][k] = One

\* ------------------------------------------------- properties of init_model
UnknownType(cfg) ==
    \/ cfg.preprocessing.type \notin PreprocessingTypes
    \/ cfg.backbone.type \notin BackboneTypes

Called == phase # "compose" \/ models # <<>>

\* what the call of init_model raised, if anything: sys.exit raises SystemExit
Raised == IF phase = "exited" THEN "SystemExit" ELSE "none"

Strip(module) == IF module = None THEN None ELSE [module EXCEPT !.params = "any"]
Structure(m) ==
    [idim |-> m.idim, odim |-> m.odim, hdim |-> m.hdim,
     global_cmvn |-> m.global_cmvn,
     preprocessing |-> Strip(m.preprocessing),
     backbone |-> Strip(m.backbone),
     classifier |-> Strip(m.classifier)]

StageNames(seq) == [n \in 1..Len(seq) |-> seq[n].stage]
IsPrefix(a, b) == Len(a) <= Len(b) /\ \A n \in 1..Len(a) : a[n] = b[n]

\* the stages the configuration asks for, in the documented order
ExpectedStages(cfg) ==
    <<"input">>
    \o (IF cfg.cmvn.cmvn_file # "None" THEN <<"global_cmvn">> ELSE <<>>)
    \o (IF cfg.preprocessing.type # "none" THEN <<"preprocessing">> ELSE <<>>)
    \o <<"backbone", "classifier", "sigmoid">>

\* the component of pipeline m that a stage name stands for
ComponentOf(m, stage) ==
    CASE stage = "global_cmvn" -> m.global_cmvn
      [] stage = "preprocessing" -> m.preprocessing
      [] stage = "backbone" -> m.backbone
      [] stage = "classifier" -> m.classifier
      [] stage = "sigmoid" -> None
      [] stage = "input" -> [kind |-> "batch"]

\* C9: every forward call applies normalization, projection, backbone,
\* classifier, sigmoid in that order, each being the pipeline's own component;
\* normalization is skipped exactly when no cmvn_file was supplied, projection
\* exactly when preprocessing.type is 'none', nothing else is ever skipped.
C9_StageOrder ==
    /\ \A n \in 1..Len(posteriors) :
          /\ StageNames(posteriors[n]) = ExpectedStages(configs)
          /\ \A k \in 1..Len(posteriors[n]) :
                posteriors[n][k].module =
                    ComponentOf(models[n].model, posteriors[n][k].stage)
    /\ fwd_pc # "idle" => IsPrefix(StageNames(x), ExpectedStages(configs))

\* C9 witness: a forward call has returned on a pipeline whose configuration
\* has a cmvn section with cmvn_file: null and a linear projection, so that
\* normalization was skipped and projection applied.
C9_Witness ==
    /\ Len(posteriors) >= 1
    /\ configs.cmvn.has_key
    /\ configs.cmvn.cmvn_file = "None"
    /\ configs.preprocessing.type = "linear"
    /\ StageNames(posteriors[1]) =
          <<"input", "preprocessing", "backbone", "classifier", "sigmoid">>

\* C10: in every pipeline init_model returns for a linear or cnn1d_s1
\* projection, the projection maps input_dim to the pipeline's hidden
\* dimension, the backbone consumes the width the projection emits and emits
\* the hidden dimension, and the classifier consumes the width the backbone
\* emits and emits output_dim.
C10_WidthsAgree ==
    \A n \in 1..Len(models) :
        LET m == models[n].model
        IN configs.preprocessing.type \in {"linear", "cnn1d_s1"} =>
              /\ m.preprocessing.idim = configs.input_dim
              /\ m.preprocessing.odim = m.hdim
              /\ m.backbone.idim = m.preprocessing.odim
              /\ m.backbone.odim = m.hdim
              /\ m.classifier.idim = m.backbone.odim
              /\ m.classifier.odim = configs.output_dim

====
